---- MODULE Spec2Model ----
(***************************************************************************)
(* Model of the Imoview -> RD Station integration                          *)
(* (src/integracao_imoview_rd.py).  A run of main() is a state machine     *)
(* whose steps are the network calls of the program (GET of a page, POST   *)
(* of an event) and the code between them.                                 *)
(*                                                                         *)
(* Python / JSON values are tagged records:                                *)
(*   Null, Num(n), Str(<<chars>>), List(<<...>>), Dict(record)             *)
(* A Python dict is a TLA+ record whose DOMAIN is the set of keys present. *)
(***************************************************************************)
EXTENDS Integers, Sequences, FiniteSets, TLC

VARIABLES
    pc,               \* position of the run
    env,              \* environment: which credentials are set
    fase_i,           \* index in fases of the stage being processed (main, line 530)
    busca,            \* obter_dados_imoview: frame of the page-1 call
    dados,            \* value returned by obter_dados_imoview (main, line 534)
    proc,             \* processar_dados: locals
    total_processado, \* main, line 528
    envio,            \* enviar_evento_conversao / enviar_evento_legacy: frame
    posts,            \* history: POSTs issued by the send in progress
    gets,             \* history: GETs issued by the fetch in progress
    hist              \* history of the run (stages fetched, successful sends, outcomes)

vars == <<pc, env, fase_i, busca, dados, proc, total_processado, envio, posts, gets, hist>>

----------------------------------------------------------------------------
(* Values *)

Null == [t |-> "null"]
Num(n) == [t |-> "num", v |-> n]
Str(s) == [t |-> "str", v |-> s]
List(l) == [t |-> "list", v |-> l]
Dict(d) == [t |-> "dict", v |-> d]
EmptyDict == Dict([k \in {} |-> Null])

\* Python truthiness (`if x:` / `not x`)
Truthy(x) ==
    CASE x.t = "null" -> FALSE
      [] x.t = "num" -> x.v # 0
      [] x.t = "str" -> Len(x.v) > 0
      [] x.t = "list" -> Len(x.v) > 0
      [] x.t = "dict" -> DOMAIN x.v # {}

\* `c in s` for a one-character string c and a Python str s
CharIn(c, s) == \E i \in 1..Len(s) : s[i] = c

\* result of code that may raise: a value, or an uncaught exception
Ret(x) == [ok |-> TRUE, v |-> x]
Raise(nome) == [ok |-> FALSE, v |-> [t |-> "exc", nome |-> nome]]

\* `chave in x` for a field name: a key test on a dict, TypeError on None or
\* a number; a str or a list holds no field name in this model
KeyIn(chave, x) ==
    CASE x.t = "dict" -> Ret(chave \in DOMAIN x.v)
      [] x.t \in {"null", "num"} -> Raise("TypeError")
      [] OTHER -> Ret(FALSE)

\* isinstance(x, dict) / isinstance(x, list)
IsDict(x) == x.t = "dict"
IsList(x) == x.t = "list"

\* dict.get(chave, padrao)
Get(d, chave, padrao) == IF chave \in DOMAIN d.v THEN d.v[chave] ELSE padrao

----------------------------------------------------------------------------
(* Dates: datetime.strptime on zero-padded text, a datetime is <<Y, m, d, H, M, S>> *)

DigitVal ==
    ("0" :> 0) @@ ("1" :> 1) @@ ("2" :> 2) @@ ("3" :> 3) @@ ("4" :> 4)
    @@ ("5" :> 5) @@ ("6" :> 6) @@ ("7" :> 7) @@ ("8" :> 8) @@ ("9" :> 9)

\* strptime directives and the number of digits each one reads here
Largura == ("Y" :> 4) @@ ("m" :> 2) @@ ("d" :> 2) @@ ("H" :> 2) @@ ("M" :> 2) @@ ("S" :> 2)

RECURSIVE Numero(_, _, _)
Numero(s, i, n) == IF n = 0 THEN 0 ELSE Numero(s, i, n - 1) * 10 + DigitVal[s[i + n - 1]]

DtZero == [Y |-> 1900, m |-> 1, d |-> 1, H |-> 0, M |-> 0, S |-> 0]
SemCasar == [Y |-> 0, m |-> 0, d |-> 0, H |-> 0, M |-> 0, S |-> 0]

\* n digits at position i of s
TemDigitos(s, i, n) ==
    i + n - 1 <= Len(s) /\ \A j \in i..(i + n - 1) : s[j] \in DOMAIN DigitVal

\* match the text s from position i against the format tokens fmt
RECURSIVE Casar(_, _, _, _)
Casar(s, fmt, i, acc) ==
    IF fmt = <<>> THEN (IF i = Len(s) + 1 THEN acc ELSE SemCasar)
    ELSE IF Head(fmt) \in DOMAIN Largura
         THEN IF TemDigitos(s, i, Largura[Head(fmt)])
              THEN Casar(s, Tail(fmt), i + Largura[Head(fmt)],
                         [acc EXCEPT ![Head(fmt)] = Numero(s, i, Largura[Head(fmt)])])
              ELSE SemCasar
         ELSE IF i <= Len(s) /\ s[i] = Head(fmt)
              THEN Casar(s, Tail(fmt), i + 1, acc)
              ELSE SemCasar

Bissexto(y) == (y % 4 = 0 /\ y % 100 # 0) \/ y % 400 = 0
DiasNoMes(y, m) ==
    IF m = 2 THEN (IF Bissexto(y) THEN 29 ELSE 28)
    ELSE IF m \in {4, 6, 9, 11} THEN 30 ELSE 31

DataValida(a) ==
    /\ a.Y >= 1 /\ a.m >= 1 /\ a.m <= 12
    /\ a.d >= 1 /\ a.d <= DiasNoMes(a.Y, a.m)
    /\ a.H <= 23 /\ a.M <= 59 /\ a.S <= 59

Dt(a) == [t |-> "dt", v |-> <<a.Y, a.m, a.d, a.H, a.M, a.S>>]

\* datetime.strptime(s, fmt): a datetime, or Null for ValueError
DtOuNull(a) == IF a # SemCasar /\ DataValida(a) THEN Dt(a) ELSE Null
Strptime(s, fmt) == DtOuNull(Casar(s, fmt, 1, DtZero))

\* lines 109-114 and 117-120
FormatosDataHora ==
    << <<"d", "/", "m", "/", "Y", " ", "H", ":", "M", ":", "S">>,
       <<"d", "/", "m", "/", "Y", " ", "H", ":", "M">>,
       <<"Y", "-", "m", "-", "d", " ", "H", ":", "M", ":", "S">>,
       <<"Y", "-", "m", "-", "d", " ", "H", ":", "M">> >>
FormatosData ==
    << <<"d", "/", "m", "/", "Y">>, <<"Y", "-", "m", "-", "d">> >>

\* a unless it is Null, else b
Primeiro(a, b) == IF a # Null THEN a ELSE b

\* lines 123-129: the first format that parses
RECURSIVE TentarFormatos(_, _)
TentarFormatos(s, fmts) ==
    IF fmts = <<>> THEN Null
    ELSE Primeiro(Strptime(s, Head(fmts)), TentarFormatos(s, Tail(fmts)))

\* lines 92-129.  A value that is not a str and is truthy raises TypeError
\* (len() of a number, strptime of a list or dict).
parse_data(data_str) ==
    IF ~Truthy(data_str) THEN Ret(Null)
    ELSE IF data_str.t # "str" THEN Raise("TypeError")
    ELSE IF Len(data_str.v) > 10 /\ (CharIn(":", data_str.v) \/ CharIn(" ", data_str.v))
         THEN Ret(TentarFormatos(data_str.v, FormatosDataHora))
         ELSE Ret(TentarFormatos(data_str.v, FormatosData))

\* a > b on datetimes
RECURSIVE TuplaMaior(_, _, _)
TuplaMaior(a, b, i) ==
    IF i > Len(a) THEN FALSE
    ELSE IF a[i] # b[i] THEN a[i] > b[i]
    ELSE TuplaMaior(a, b, i + 1)
DtMaior(a, b) == TuplaMaior(a.v, b.v, 1)
DtMaiorIgual(a, b) == a.v = b.v \/ DtMaior(a, b)

----------------------------------------------------------------------------
(* Program constants *)

FASE_VISITA == 4
FASE_PROPOSTA == 5
FASE_VENDA == 6

EVENTOS_CONVERSAO ==
    (FASE_VISITA :> "imoview-update_Visita")
    @@ (FASE_PROPOSTA :> "imoview-update_Proposta")
    @@ (FASE_VENDA :> "imoview-update_Venda")

RD_CONVERSIONS_URL == "https://api.rd.services/platform/events?event_type=conversion"
RD_LEGACY_URL == "https://www.rdstation.com.br/api/1.3/conversions"

----------------------------------------------------------------------------
(* filtrar_registros_por_data *)

\* the rest of the code runs on the value of r unless r raised
Bind(r, F(_)) == IF r.ok THEN F(r.v) ELSE r

\* faulty variant of MaisRecenteDe: the date parsed last replaces the one so far
MaisRecenteDeUltima(data_registro, data_temp) ==
    IF data_temp # Null THEN data_temp ELSE data_registro

\* line 238 / 247: the later of the date so far and a newly parsed one
MaisRecenteDe(data_registro, data_temp) ==
    IF data_temp # Null /\ (data_registro = Null \/ DtMaior(data_temp, data_registro))
    THEN data_temp ELSE data_registro

\* lines 244-248 (and 235-239): the latest parseable date under `campo` over the
\* entries of a list, starting from data_registro
RECURSIVE MaisRecente(_, _, _)
MaisRecente(itens, campo, data_registro) ==
    IF itens = <<>> THEN Ret(data_registro)
    ELSE Bind(KeyIn(campo, Head(itens)), LAMBDA tem :
            IF tem
            THEN Bind(parse_data(Head(itens).v[campo]), LAMBDA data_temp :
                    MaisRecente(Tail(itens), campo, MaisRecenteDe(data_registro, data_temp)))
            ELSE MaisRecente(Tail(itens), campo, data_registro))

\* a non-empty list under `chave` (lines 232, 234, 243), given `chave in x`
ListaNaoVazia(tem, x, chave) == tem /\ IsList(x.v[chave]) /\ Len(x.v[chave].v) > 0

\* lines 233-239: the latest negotiation date over all the proposals
RECURSIVE MaisRecenteProposta(_, _)
MaisRecenteProposta(propostas, data_registro) ==
    IF propostas = <<>> THEN Ret(data_registro)
    ELSE Bind(KeyIn("negociacoes", Head(propostas)), LAMBDA tem :
            IF ListaNaoVazia(tem, Head(propostas), "negociacoes")
            THEN Bind(MaisRecente(Head(propostas).v["negociacoes"].v, "datanegociacao",
                                  data_registro),
                      LAMBDA d : MaisRecenteProposta(Tail(propostas), d))
            ELSE MaisRecenteProposta(Tail(propostas), data_registro))

\* lines 223-228
DataVisita(registro) ==
    Bind(KeyIn("datavisita", registro), LAMBDA tem :
        IF tem THEN parse_data(registro.v["datavisita"])
        ELSE IF KeyIn("dataVisita", registro).v THEN parse_data(registro.v["dataVisita"])
        ELSE Ret(Null))

\* lines 230-239
DataProposta(registro) ==
    Bind(KeyIn("imoveisproposta", registro), LAMBDA tem :
        IF ListaNaoVazia(tem, registro, "imoveisproposta")
        THEN MaisRecenteProposta(registro.v["imoveisproposta"].v, Null)
        ELSE Ret(Null))

\* lines 241-248
DataVenda(registro) ==
    Bind(KeyIn("imoveisnegocio", registro), LAMBDA tem :
        IF ListaNaoVazia(tem, registro, "imoveisnegocio")
        THEN MaisRecente(registro.v["imoveisnegocio"].v, "datanegocio", Null)
        ELSE Ret(Null))

\* lines 223-248: the date of the stage's own field
DataEspecifica(registro, tipo_fase) ==
    CASE tipo_fase = FASE_VISITA -> DataVisita(registro)
      [] tipo_fase = FASE_PROPOSTA -> DataProposta(registro)
      [] tipo_fase = FASE_VENDA -> DataVenda(registro)
      [] OTHER -> Ret(Null)

\* faulty variant of data_campos: the generic fields in the opposite order
data_camposInvertidos ==
    <<"data", "dataCadastro", "data_alteracao", "dataAlteracao", "dataalteracao",
      "data_inclusao", "dataInclusao", "datainclusao">>

\* lines 253-257
data_campos ==
    <<"datainclusao", "dataInclusao", "data_inclusao", "dataalteracao",
      "dataAlteracao", "data_alteracao", "dataCadastro", "data">>

\* lines 259-264: the first generic field that is present, truthy and parseable
RECURSIVE DataGenerica(_, _)
DataGenerica(registro, campos) ==
    IF campos = <<>> THEN Ret(Null)
    ELSE Bind(KeyIn(Head(campos), registro), LAMBDA tem :
            IF tem /\ Truthy(registro.v[Head(campos)])
            THEN Bind(parse_data(registro.v[Head(campos)]), LAMBDA data_temp :
                    IF data_temp # Null THEN Ret(data_temp)
                    ELSE DataGenerica(registro, Tail(campos)))
            ELSE DataGenerica(registro, Tail(campos)))

\* lines 219-264: data_registro of one record
DataRegistro(registro, tipo_fase) ==
    Bind(DataEspecifica(registro, tipo_fase), LAMBDA data_registro :
        IF data_registro # Null THEN Ret(data_registro)
        ELSE DataGenerica(registro, data_campos))

\* lines 267-268
RegistroValido(data_registro, data_corte) ==
    data_registro # Null /\ DtMaiorIgual(data_registro, data_corte)

\* lines 213-274
RECURSIVE Filtrar(_, _, _, _)
Filtrar(registros, data_corte, tipo_fase, registros_filtrados) ==
    IF registros = <<>> THEN Ret(registros_filtrados)
    ELSE Bind(DataRegistro(Head(registros), tipo_fase), LAMBDA data_registro :
            Filtrar(Tail(registros), data_corte, tipo_fase,
                    IF RegistroValido(data_registro, data_corte)
                    THEN Append(registros_filtrados, Head(registros))
                    ELSE registros_filtrados))

filtrar_registros_por_data(registros, data_corte, tipo_fase) ==
    Filtrar(registros, data_corte, tipo_fase, <<>>)

----------------------------------------------------------------------------
(* extrair_email, extrair_midia_campanha *)

\* `'@' in x`: a character test on a str, a key test on a dict, an element test
\* on a list, TypeError on a number
ArrobaIn(x) ==
    CASE x.t = "str" -> Ret(CharIn("@", x.v))
      [] x.t = "dict" -> Ret("@" \in DOMAIN x.v)
      [] x.t = "list" -> Ret(\E i \in 1..Len(x.v) : x.v[i] = Str(<<"@">>))
      [] OTHER -> Raise("TypeError")

\* `x and '@' in x` (lines 400, 406)
TemArroba(x) == IF Truthy(x) THEN ArrobaIn(x) ELSE Ret(FALSE)

\* faulty variant of email_campos: the top-level fields in the opposite order
email_camposInvertidos == <<"emailCliente", "email_contato", "emailcontato", "email">>

\* line 404
email_campos == <<"email", "emailcontato", "email_contato", "emailCliente">>

\* lines 405-410
RECURSIVE EmailDosCampos(_, _)
EmailDosCampos(negocio, campos) ==
    IF campos = <<>> THEN Ret(Null)
    ELSE Bind(KeyIn(Head(campos), negocio), LAMBDA tem :
            IF tem
            THEN Bind(TemArroba(negocio.v[Head(campos)]), LAMBDA arroba :
                    IF arroba THEN Ret(negocio.v[Head(campos)])
                    ELSE EmailDosCampos(negocio, Tail(campos)))
            ELSE EmailDosCampos(negocio, Tail(campos)))

\* lines 398-401: the email of the nested lead, Null when it does not qualify
EmailDoLead(negocio) ==
    Bind(KeyIn("lead", negocio), LAMBDA tem :
        IF tem /\ IsDict(negocio.v["lead"])
        THEN Bind(TemArroba(Get(negocio.v["lead"], "email", Null)), LAMBDA arroba :
                IF arroba THEN Ret(Get(negocio.v["lead"], "email", Null)) ELSE Ret(Null))
        ELSE Ret(Null))

\* lines 393-410
extrair_email(negocio) ==
    Bind(EmailDoLead(negocio), LAMBDA email :
        IF email # Null THEN Ret(email) ELSE EmailDosCampos(negocio, email_campos))

\* lines 424-427 and 431-434: the first field that is present and truthy
RECURSIVE PrimeiroCampo(_, _)
PrimeiroCampo(negocio, campos) ==
    IF campos = <<>> THEN Null
    ELSE IF Head(campos) \in DOMAIN negocio.v /\ Truthy(negocio.v[Head(campos)])
         THEN negocio.v[Head(campos)]
         ELSE PrimeiroCampo(negocio, Tail(campos))

midia_campos == <<"midia", "media", "origem", "source", "traffic_medium">>
campanha_campos == <<"campanha", "campaign", "traffic_campaign">>

\* lines 412-436, for a negocio that is a dict
extrair_midia_campanha(negocio) ==
    [midia |-> PrimeiroCampo(negocio, midia_campos),
     campanha |-> PrimeiroCampo(negocio, campanha_campos)]

----------------------------------------------------------------------------
(* HTTP *)

\* What a call of requests.get / requests.post can produce: the call raises a
\* RequestException before any response exists (connection error, timeout), or
\* it returns a response with a final status code.
StatusCodes == {200, 304, 500}
FalhaRede == [rede |-> "falha", status |-> 0]
Resposta(s) == [rede |-> "ok", status |-> s]
RespostasHttp == {FalhaRede} \cup {Resposta(s) : s \in StatusCodes}
RespostasPost == RespostasHttp

\* response.raise_for_status(): raises HTTPError for 4xx and 5xx, and only those
LevantaHTTPError(status) == status >= 400 /\ status < 600

\* the try-block of a POST ends without RequestException
PostSemExcecao(r) == r.rede = "ok" /\ ~LevantaHTTPError(r.status)

Is2xx(r) == r.rede = "ok" /\ r.status >= 200 /\ r.status < 300

----------------------------------------------------------------------------
(* What the source API can answer *)

Txt_xy == <<"x", "@", "y">>
Txt_ab == <<"a", "@", "b">>
Txt_sem_arroba == <<"x", "y">>
Txt_15_01_2024 == <<"1", "5", "/", "0", "1", "/", "2", "0", "2", "4">>
Txt_01_01_2024 == <<"0", "1", "/", "0", "1", "/", "2", "0", "2", "4">>
Txt_2024_01_15 == <<"2", "0", "2", "4", "-", "0", "1", "-", "1", "5">>
Txt_15_01_2024_10_30 ==
    <<"1", "5", "/", "0", "1", "/", "2", "0", "2", "4", " ", "1", "0", ":", "3", "0">>

\* a visit with a nested lead and a medium
RegVisita ==
    Dict([codigo |-> Num(1), datavisita |-> Str(Txt_15_01_2024_10_30),
          lead |-> Dict([email |-> Str(Txt_xy)]), midia |-> Str(<<"m">>)])
\* the same lead under a top-level spelling, dated by a generic field
RegGenerico ==
    Dict([codigo |-> Num(2), datainclusao |-> Str(Txt_2024_01_15),
          emailcontato |-> Str(Txt_xy)])
\* a recent record whose email holds no "@"
RegSemEmail ==
    Dict([codigo |-> Num(3), datainclusao |-> Str(Txt_15_01_2024),
          email |-> Str(Txt_sem_arroba)])
\* a proposal with two negotiations and an old deal closing
RegProposta ==
    Dict([codigo |-> Num(4),
          imoveisproposta |-> List(<<Dict([negociacoes |-> List(<<
              Dict([datanegociacao |-> Str(Txt_01_01_2024)]),
              Dict([datanegociacao |-> Str(Txt_15_01_2024)])>>)])>>),
          imoveisnegocio |-> List(<<Dict([datanegocio |-> Str(Txt_01_01_2024)])>>),
          email |-> Str(Txt_ab)])

\* a record whose creation date came as a number instead of a text
RegDataNumero ==
    Dict([codigo |-> Num(5), datainclusao |-> Num(20240115), email |-> Str(Txt_ab)])

RegistrosServidor == {RegVisita, RegGenerico, RegSemEmail, RegProposta, RegDataNumero}

\* most records the pages of one fetch carry together
MaxLista == 2

RECURSIVE SeqsAte(_, _)
SeqsAte(S, n) ==
    IF n = 0 THEN {<<>>}
    ELSE LET menores == SeqsAte(S, n - 1)
         IN menores \cup {Append(q, x) : q \in {m \in menores : Len(m) = n - 1}, x \in S}

\* most records the pages of one fetch carry together when the fetch is
\* exercised on its own, where up to MAX_PAGINAS pages follow each other and
\* the records, which the fetch never looks into, are of two kinds
MaxListaBusca == 2
RegistrosBusca == {RegVisita, RegSemEmail}

Resto(maximo, ja) == IF ja >= maximo THEN 0 ELSE maximo - ja

\* the lists a page can carry when the pages before it carried ja records
ListasServidor(modo, ja) ==
    IF modo = "main" THEN SeqsAte(RegistrosServidor, Resto(MaxLista, ja))
    ELSE SeqsAte(RegistrosBusca, Resto(MaxListaBusca, ja))

\* totalRegistros values the server reports
TotaisServidor == {0, 2, 5, 21}

NaoJson == [t |-> "naojson"]

\* JSON bodies: the two documented shapes (a list, an object with `lista` and
\* `totalRegistros`) and other valid JSON
CorposJson(listas) ==
    {List(l) : l \in listas}
    \cup {Dict([lista |-> List(l), totalRegistros |-> Num(n)]) :
            l \in listas, n \in TotaisServidor}
    \cup {Dict([lista |-> List(l)]) : l \in listas}
    \cup {Dict([totalRegistros |-> Num(n)]) : n \in TotaisServidor}
    \cup {Dict([lista |-> Null, totalRegistros |-> Num(n)]) : n \in TotaisServidor}
    \cup {Dict([lista |-> List(l), totalRegistros |-> Null]) : l \in listas}
    \cup {EmptyDict, Null, Num(7), Str(<<"e", "r", "r", "o">>)}

RespostaGet(rede, status, corpo) == [rede |-> rede, status |-> status, corpo |-> corpo]

RespostasGet(modo, ja) ==
    {RespostaGet("falha", 0, NaoJson)}
    \cup {RespostaGet("ok", s, c) : s \in {x \in StatusCodes : ~LevantaHTTPError(x)},
                                   c \in CorposJson(ListasServidor(modo, ja)) \cup {NaoJson}}
    \cup {RespostaGet("ok", s, NaoJson) : s \in {x \in StatusCodes : LevantaHTTPError(x)}}

----------------------------------------------------------------------------
(* obter_dados_imoview *)

\* line 168: the literal 5
MAX_PAGINAS == 5

\* len(x): TypeError on None and on a number
PyLen(x) ==
    CASE x.t \in {"list", "str"} -> Ret(Len(x.v))
      [] x.t = "dict" -> Ret(Cardinality(DOMAIN x.v))
      [] OTHER -> Raise("TypeError")

Min(a, b) == IF a <= b THEN a ELSE b

\* line 168
MaxPaginas(total_registros, registros_por_pagina) ==
    Min(MAX_PAGINAS, (total_registros + registros_por_pagina - 1) \div registros_por_pagina)

\* a test of line 171 that forgets `pagina == 1`
DevePaginarQualquerPagina(data, pagina, max_paginas) ==
    IsDict(data) /\ "lista" \in DOMAIN data.v /\ max_paginas > 1

\* line 171
DevePaginar(data, pagina, max_paginas) ==
    IsDict(data) /\ "lista" \in DOMAIN data.v /\ pagina = 1 /\ max_paginas > 1

Retorna(x) == [k |-> "retorno", v |-> x]
Paginar(registros, total, max_paginas) ==
    [k |-> "paginar", v |-> Null, registros |-> registros, total |-> total,
     max_paginas |-> max_paginas]
Levanta == [k |-> "excecao", v |-> Null]

\* line 161
TotalRegistros(data) == IF IsDict(data) THEN Get(data, "totalRegistros", Num(0)) ELSE Num(0)

\* line 162
RegistrosAtuais(data) ==
    IF IsDict(data) THEN PyLen(Get(data, "lista", List(<<>>))) ELSE PyLen(data)

\* lines 150-198 for the answer to the call's own request: the call returns,
\* raises, or goes on to the further pages (lines 172-187)
ObterDados(resp, pagina, registros_por_pagina) ==
    IF resp.rede = "falha" \/ LevantaHTTPError(resp.status) THEN Retorna(Null)
    ELSE IF resp.corpo = NaoJson THEN Retorna(Null)
    ELSE IF ~RegistrosAtuais(resp.corpo).ok THEN Levanta
    ELSE IF TotalRegistros(resp.corpo).t # "num" THEN Levanta
    ELSE IF DevePaginar(resp.corpo, pagina,
                        MaxPaginas(TotalRegistros(resp.corpo).v, registros_por_pagina))
         THEN Paginar(resp.corpo.v["lista"].v, TotalRegistros(resp.corpo),
                      MaxPaginas(TotalRegistros(resp.corpo).v, registros_por_pagina))
         ELSE Retorna(resp.corpo)

\* faulty variant of Estender: a page's records go in front of the earlier ones
EstenderNaFrente(registros, next_page) ==
    IF IsDict(next_page) /\ "lista" \in DOMAIN next_page.v
    THEN next_page.v["lista"].v \o registros
    ELSE IF IsList(next_page) THEN next_page.v \o registros
    ELSE registros

\* faulty variant of Estender: a page that gave None empties registros
EstenderPerdeNaFalha(registros, next_page) ==
    IF IsDict(next_page) /\ "lista" \in DOMAIN next_page.v
    THEN registros \o next_page.v["lista"].v
    ELSE IF IsList(next_page) THEN registros \o next_page.v
    ELSE IF next_page = Null THEN <<>>
    ELSE registros

\* lines 179-182: what a further page adds to registros
Estender(registros, next_page) ==
    IF IsDict(next_page) /\ "lista" \in DOMAIN next_page.v
    THEN registros \o next_page.v["lista"].v
    ELSE IF IsList(next_page) THEN registros \o next_page.v
    ELSE registros

\* line 187
ResultadoPaginado(registros, total_registros) ==
    Dict([lista |-> List(registros), totalRegistros |-> total_registros])

\* the records a page's answer carries
RegistrosDaResposta(resp) ==
    IF resp.rede = "falha" \/ LevantaHTTPError(resp.status) THEN <<>>
    ELSE IF IsList(resp.corpo) THEN resp.corpo.v
    ELSE IF IsDict(resp.corpo) /\ "lista" \in DOMAIN resp.corpo.v
            /\ IsList(resp.corpo.v["lista"])
         THEN resp.corpo.v["lista"].v
    ELSE <<>>

\* whether the request was answered by a network failure, an error status or a
\* body that is not JSON (lines 152-154, 190-198)
RespostaFalha(resp) ==
    resp.rede = "falha" \/ LevantaHTTPError(resp.status) \/ resp.corpo = NaoJson

\* what is kept of a request for the history: the page asked for, the records
\* its answer carried, whether the request failed and, for page 1, what the
\* answer said about the total
Visto(pagina, resp) ==
    [pagina |-> pagina,
     lista |-> RegistrosDaResposta(resp),
     falha |-> RespostaFalha(resp),
     status |-> IF pagina = 1 /\ resp.rede = "ok" THEN resp.status ELSE 0,
     tem_lista |-> /\ pagina = 1
                   /\ ~RespostaFalha(resp)
                   /\ IsDict(resp.corpo)
                   /\ "lista" \in DOMAIN resp.corpo.v,
     total |-> IF pagina = 1 /\ ~RespostaFalha(resp) /\ IsDict(resp.corpo)
               THEN Get(resp.corpo, "totalRegistros", Null)
               ELSE Null]

\* the frame of the call is gone when it returns; its arguments are kept for
\* the history
FimBusca(b) ==
    [b EXCEPT !.p = 0, !.registros = <<>>, !.total = Null, !.max_paginas = 0]

\* where the caller of obter_dados_imoview goes on
AposBusca(modo) == IF modo = "main" THEN "processar" ELSE "buscado"

\* the page-1 call, lines 142-171, and its return when no page follows (189-198)
Pagina1(resp, r) ==
        /\ gets' = Append(gets, Visto(1, resp))
        /\ CASE r.k = "excecao" ->
                  /\ pc' = "excecao"
                  /\ UNCHANGED <<busca, dados>>
             [] r.k = "retorno" ->
                  /\ pc' = AposBusca(busca.modo)
                  /\ dados' = r.v
                  /\ busca' = FimBusca(busca)
             [] r.k = "paginar" ->
                  /\ pc' = "paginas"
                  /\ busca' = [busca EXCEPT !.p = 2, !.registros = r.registros,
                                            !.total = r.total,
                                            !.max_paginas = r.max_paginas]
                  /\ UNCHANGED dados

GetPagina1 ==
    /\ pc = "buscar"
    /\ \E resp \in RespostasGet(busca.modo, 0) : Pagina1(resp, ObterDados(resp, 1, busca.rpp))
    /\ UNCHANGED <<env, fase_i, proc, total_processado, envio, posts, hist>>

\* one turn of the loop of lines 175-185: the recursive call for page p, and
\* line 187 after the last page; a recursive call that itself went on to
\* further pages (line 171 true in it) would open a third level of calls
PaginaAdicional(resp, r) ==
        /\ gets' = Append(gets, Visto(busca.p, resp))
        /\ IF r.k = "excecao"
           THEN /\ pc' = "excecao"
                /\ UNCHANGED <<busca, dados>>
           ELSE IF r.k = "paginar"
           THEN /\ pc' = "recursao"
                /\ UNCHANGED <<busca, dados>>
           ELSE IF busca.p + 1 <= busca.max_paginas
                THEN /\ busca' = [busca EXCEPT !.p = busca.p + 1,
                                               !.registros = Estender(@, r.v)]
                     /\ UNCHANGED <<pc, dados>>
                ELSE /\ pc' = AposBusca(busca.modo)
                     /\ dados' = ResultadoPaginado(Estender(busca.registros, r.v),
                                                   busca.total)
                     /\ busca' = FimBusca(busca)

GetPaginaAdicional ==
    /\ pc = "paginas"
    /\ \E resp \in RespostasGet(busca.modo, Len(busca.registros)) :
        PaginaAdicional(resp, ObterDados(resp, busca.p, busca.rpp))
    /\ UNCHANGED <<env, fase_i, proc, total_processado, envio, posts, hist>>

----------------------------------------------------------------------------
(* enviar_evento_conversao / enviar_evento_legacy *)

EnvioOcioso ==
    [passo |-> "ocioso", email |-> Null, fase |-> 0, midia |-> Null,
     campanha |-> Null, retorno |-> FALSE, chamador |-> "nenhum"]

\* optional payload field: added only when the value is truthy (lines 309-313, 357-361)
Opcional(x) == IF Truthy(x) THEN x ELSE Null

\* faulty variant of FaseInvalida: the guard of line 287 lets every stage through
FaseInvalidaNunca(tipo_fase) == FALSE

\* faulty variant of UsaLegacyDireto: the branch of line 294 is never taken
UsaLegacyDiretoNunca(tipo_fase) == FALSE

\* line 287
FaseInvalida(tipo_fase) == tipo_fase \notin DOMAIN EVENTOS_CONVERSAO

\* line 294
UsaLegacyDireto(tipo_fase) == tipo_fase = FASE_VENDA

\* lines 287-295: where a call of enviar_evento_conversao goes first
PrimeiroPasso(tipo_fase) ==
    IF FaseInvalida(tipo_fase) THEN "fim"
    ELSE IF UsaLegacyDireto(tipo_fase) THEN "legacy"
    ELSE "nova"

\* line 291, evaluated only for a stage that line 287 let through
EventoDe(tipo_fase) ==
    IF tipo_fase \in DOMAIN EVENTOS_CONVERSAO THEN EVENTOS_CONVERSAO[tipo_fase] ELSE ""

\* the frame of a call enviar_evento_conversao(email, tipo_fase, midia, campanha)
IniciarEnvio(email, tipo_fase, midia, campanha, chamador) ==
    [passo |-> PrimeiroPasso(tipo_fase), email |-> email, fase |-> tipo_fase,
     midia |-> midia, campanha |-> campanha, retorno |-> FALSE,
     chamador |-> chamador]

\* lines 299-306: payload of the new API
PayloadNovo(e) ==
    [url |-> RD_CONVERSIONS_URL, codificacao |-> "json",
     identificador |-> EventoDe(e.fase), email |-> e.email,
     traffic_medium |-> Opcional(e.midia), traffic_campaign |-> Opcional(e.campanha)]

\* faulty variant of PayloadLegacy: the identifier does not follow the stage
PayloadLegacyFixo(e, codificacao) ==
    [url |-> RD_LEGACY_URL, codificacao |-> codificacao,
     identificador |-> EVENTOS_CONVERSAO[FASE_VENDA], email |-> e.email,
     traffic_medium |-> Opcional(e.midia), traffic_campaign |-> Opcional(e.campanha)]

\* lines 351-361: payload of the legacy API, sent as JSON or form-encoded
PayloadLegacy(e, codificacao) ==
    [url |-> RD_LEGACY_URL, codificacao |-> codificacao,
     identificador |-> EventoDe(e.fase), email |-> e.email,
     traffic_medium |-> Opcional(e.midia), traffic_campaign |-> Opcional(e.campanha)]

\* faulty variant of AposFalhaNova: the fallback skips the JSON attempt
AposFalhaNovaSaltaJson == "form"

\* lines 331-338: the except branch of the new-API POST
AposFalhaNova == "legacy"

\* lines 376-385: the except branch of the legacy JSON POST
AposFalhaLegacy == "form"

\* lines 320-338: POST to the new API
PostNova ==
    /\ envio.passo = "nova"
    /\ \E r \in RespostasPost :
        /\ posts' = Append(posts, [req |-> PayloadNovo(envio), resp |-> r])
        /\ envio' = IF PostSemExcecao(r)
                    THEN [envio EXCEPT !.passo = "fim", !.retorno = TRUE]
                    ELSE [envio EXCEPT !.passo = AposFalhaNova]
    /\ UNCHANGED <<pc, env, fase_i, busca, dados, proc, total_processado, gets, hist>>

\* lines 365-380: POST to the legacy API as JSON
PostLegacy ==
    /\ envio.passo = "legacy"
    /\ \E r \in RespostasPost :
        /\ posts' = Append(posts, [req |-> PayloadLegacy(envio, "json"), resp |-> r])
        /\ envio' = IF PostSemExcecao(r)
                    THEN [envio EXCEPT !.passo = "fim", !.retorno = TRUE]
                    ELSE [envio EXCEPT !.passo = AposFalhaLegacy]
    /\ UNCHANGED <<pc, env, fase_i, busca, dados, proc, total_processado, gets, hist>>

\* lines 382-391: POST to the legacy API form-encoded, the last resort
PostForm ==
    /\ envio.passo = "form"
    /\ \E r \in RespostasPost :
        /\ posts' = Append(posts, [req |-> PayloadLegacy(envio, "form"), resp |-> r])
        /\ envio' = [envio EXCEPT !.passo = "fim", !.retorno = PostSemExcecao(r)]
    /\ UNCHANGED <<pc, env, fase_i, busca, dados, proc, total_processado, gets, hist>>

----------------------------------------------------------------------------
(* processar_dados and main *)

\* faulty variant of fases: the last two stages swapped
fasesTrocadas == <<FASE_VISITA, FASE_VENDA, FASE_PROPOSTA>>

\* line 527
fases == <<FASE_VISITA, FASE_PROPOSTA, FASE_VENDA>>

\* line 131: the default page size, which main uses (line 534)
REGISTROS_POR_PAGINA == 20

\* line 523: the cutoff of the run
DataCorte == [t |-> "dt", v |-> <<2024, 1, 10, 0, 0, 0>>]

\* line 545
Txt_teste_email ==
    <<"t", "e", "s", "t", "e", "@", "e", "x", "a", "m", "p", "l", "e", ".", "c", "o", "m">>
Txt_teste == <<"t", "e", "s", "t", "e">>

HistVazio ==
    [fases |-> <<>>, enviados |-> {}, repetido |-> FALSE, registros |-> <<>>,
     contadores |-> <<>>, sem_dados |-> <<>>,
     conexao |-> [rede |-> "nenhuma", status |-> 0]]
BuscaOciosa ==
    [modo |-> "nenhum", fase |-> 0, rpp |-> 0, p |-> 0, registros |-> <<>>,
     total |-> Null, max_paginas |-> 0]
ProcOcioso ==
    [filtrados |-> <<>>, i |-> 0, contador |-> 0, contador_sem_email |-> 0,
     emails_processados |-> {}, recebidos |-> 0]

\* the frame of a call obter_dados_imoview(fase, 1, registros_por_pagina)
NovaBusca(modo, fase, registros_por_pagina) ==
    [modo |-> modo, fase |-> fase, rpp |-> registros_por_pagina, p |-> 1,
     registros |-> <<>>, total |-> Null, max_paginas |-> 0]

\* str(n) for n >= 0
RECURSIVE Digitos(_)
Digitos(n) ==
    LET c == CHOOSE x \in DOMAIN DigitVal : DigitVal[x] = n % 10
    IN IF n < 10 THEN <<c>> ELSE Append(Digitos(n \div 10), c)

\* a key made of the email alone
ChaveEmailSemFase(email, tipo_fase) == email.v

\* line 489: f"{email}_{tipo_fase}", for an email that is a str
ChaveEmail(email, tipo_fase) == email.v \o <<"_">> \o Digitos(tipo_fase)

\* faulty variant of JaProcessado: the check of line 490 never finds the key
JaProcessadoNunca(email_key, emails_processados) == FALSE

\* faulty variant of RegistrarChave: line 503 forgets the key
RegistrarChaveEsquece(email_key, emails_processados) == emails_processados

\* line 490
JaProcessado(email_key, emails_processados) == email_key \in emails_processados

\* line 503
RegistrarChave(email_key, emails_processados) == emails_processados \cup {email_key}

Init ==
    /\ pc = "modulo"
    /\ env \in [IMOVIEW_API_KEY : BOOLEAN, RD_TOKEN_PUBLICO : BOOLEAN]
    /\ fase_i = 0
    /\ busca = BuscaOciosa
    /\ dados = Null
    /\ proc = ProcOcioso
    /\ total_processado = 0
    /\ envio = EnvioOcioso
    /\ posts = <<>>
    /\ gets = <<>>
    /\ hist = HistVazio

\* a check that forgets the public token
CredenciaisSoChave(e) == e.IMOVIEW_API_KEY

\* lines 35 and 39: both credentials are set and not empty
CredenciaisConfiguradas(e) == e.IMOVIEW_API_KEY /\ e.RD_TOKEN_PUBLICO

\* lines 29-42: the module stops with ValueError when a credential is missing
VerificarCredenciais ==
    /\ pc = "modulo"
    /\ pc' = IF CredenciaisConfiguradas(env) THEN "main" ELSE "fatal"
    /\ UNCHANGED <<env, fase_i, busca, dados, proc, total_processado, envio, posts,
                   gets, hist>>

\* a connection test that takes any answer for a success
testar_conexaoQualquerStatus(r) == r.rede = "ok"

\* lines 69-82
testar_conexao(r) == r.rede = "ok" /\ r.status = 200

\* the stage loop of main starts the fetch of stage fases[i] (lines 530-534)
EntrarFase(i) ==
    /\ fase_i' = i
    /\ pc' = "buscar"
    /\ busca' = NovaBusca("main", fases[i], REGISTROS_POR_PAGINA)
    /\ gets' = <<>>

\* lines 515-534: the connection test, then the first stage
TestarConexao ==
    /\ pc = "main"
    /\ \E r \in RespostasHttp :
        IF testar_conexao(r)
        THEN /\ EntrarFase(1)
             /\ hist' = [hist EXCEPT !.fases = Append(@, fases[1]), !.conexao = r]
        ELSE /\ pc' = "fim"
             /\ hist' = [hist EXCEPT !.conexao = r]
             /\ UNCHANGED <<fase_i, busca, gets>>
    /\ total_processado' = 0
    /\ UNCHANGED <<env, dados, proc, envio, posts>>

\* lines 537-540, then the next stage or the end of the loop (line 543)
FimDaFase(contador, sem_dados) ==
    /\ total_processado' = total_processado + contador
    /\ IF fase_i < Len(fases)
       THEN /\ EntrarFase(fase_i + 1)
            /\ hist' = [hist EXCEPT !.contadores = Append(@, contador),
                                    !.sem_dados = Append(@, sem_dados),
                                    !.fases = Append(@, fases[fase_i + 1]),
                                    !.registros = <<>>]
       ELSE /\ pc' = "teste"
            /\ hist' = [hist EXCEPT !.contadores = Append(@, contador),
                                    !.sem_dados = Append(@, sem_dados),
                                    !.registros = <<>>]
            /\ UNCHANGED <<fase_i, busca, gets>>

\* lines 447-465: the records of the answer, Null when processar_dados returns 0
RegistrosDe(d) ==
    IF ~Truthy(d) THEN Null
    ELSE IF IsDict(d) THEN (IF "lista" \in DOMAIN d.v THEN d.v["lista"] ELSE Null)
    ELSE IF IsList(d) THEN d
    ELSE Null

\* lines 447-475: processar_dados up to its loop
\* line 468, on the records found: iterating a value that is no list raises
FiltrarRegistros(registros, tipo_fase) ==
    IF IsList(registros)
    THEN filtrar_registros_por_data(registros.v, DataCorte, tipo_fase)
    ELSE Raise("TypeError")

\* lines 454 and 462: len(registros), the number of records the fetch returned
Recebidos(registros) == IF IsList(registros) THEN Len(registros.v) ELSE 0

\* lines 468-475, given the outcome f of the filter and the n records received
IniciarLaco(f, n) ==
    IF ~f.ok
    THEN /\ pc' = "excecao"
         /\ UNCHANGED <<fase_i, busca, proc, total_processado, gets, hist>>
    ELSE /\ pc' = "registros"
         /\ proc' = [filtrados |-> f.v, i |-> 1, contador |-> 0,
                     contador_sem_email |-> 0, emails_processados |-> {},
                     recebidos |-> n]
         /\ gets' = <<>>
         /\ UNCHANGED <<fase_i, busca, total_processado, hist>>

\* dados is not read again before line 534 assigns it for the next stage
ProcessarInicio ==
    /\ pc = "processar"
    /\ IF RegistrosDe(dados) = Null
       THEN /\ FimDaFase(0, dados = Null)
            /\ UNCHANGED proc
       ELSE IniciarLaco(FiltrarRegistros(RegistrosDe(dados), fases[fase_i]),
                        Recebidos(RegistrosDe(dados)))
    /\ dados' = Null
    /\ UNCHANGED <<env, envio, posts>>

Resultado(email, r) == [email |-> email, r |-> r]

\* lines 477-499: one record of the loop, up to the call of the dispatcher
\* lines 479-499 for the record negocio, given the outcome e of extrair_email
TratarRegistro(negocio, e) ==
    IF ~e.ok
    THEN /\ pc' = "excecao"
         /\ UNCHANGED <<proc, envio, posts, hist>>
    ELSE IF ~Truthy(e.v)
    THEN /\ proc' = [proc EXCEPT !.i = @ + 1, !.contador_sem_email = @ + 1]
         /\ hist' = [hist EXCEPT !.registros = Append(@, Resultado(Null, "sem_email"))]
         /\ UNCHANGED <<pc, envio, posts>>
    ELSE IF JaProcessado(ChaveEmail(e.v, fases[fase_i]), proc.emails_processados)
    THEN /\ proc' = [proc EXCEPT !.i = @ + 1]
         /\ hist' = [hist EXCEPT !.registros = Append(@, Resultado(e.v, "duplicado"))]
         /\ UNCHANGED <<pc, envio, posts>>
    ELSE /\ envio' = IniciarEnvio(e.v, fases[fase_i],
                                  extrair_midia_campanha(negocio).midia,
                                  extrair_midia_campanha(negocio).campanha, "registro")
         /\ posts' = <<>>
         /\ pc' = "enviando"
         /\ UNCHANGED <<proc, hist>>

ProcessarRegistro ==
    /\ pc = "registros"
    /\ proc.i <= Len(proc.filtrados)
    /\ TratarRegistro(proc.filtrados[proc.i], extrair_email(proc.filtrados[proc.i]))
    /\ UNCHANGED <<env, fase_i, busca, dados, total_processado, gets>>

\* a sent counter that counts every dispatch, delivered or not
NovoContadorSempre(contador, enviado) == contador + 1

\* lines 501-502: contador after a dispatch that returned enviado
NovoContador(contador, enviado) == IF enviado THEN contador + 1 ELSE contador

\* a key set that keeps the key of a dispatch that failed too
ChavesAposSempre(emails_processados, email_key, enviado) ==
    RegistrarChave(email_key, emails_processados)

\* lines 501 and 503: emails_processados after a dispatch that returned enviado
ChavesApos(emails_processados, email_key, enviado) ==
    IF enviado THEN RegistrarChave(email_key, emails_processados) ELSE emails_processados

\* lines 501-506: back from the dispatcher
AposEnvioRegistro ==
    /\ pc = "enviando"
    /\ envio.passo = "fim"
    /\ envio.chamador = "registro"
    /\ proc' = [proc EXCEPT
                   !.i = @ + 1,
                   !.contador = NovoContador(@, envio.retorno),
                   !.emails_processados =
                       ChavesApos(@, ChaveEmail(envio.email, envio.fase), envio.retorno)]
    /\ hist' = IF envio.retorno
               THEN [hist EXCEPT
                        !.registros = Append(@, Resultado(envio.email, "enviado")),
                        !.repetido = @ \/ <<envio.email, envio.fase>> \in hist.enviados,
                        !.enviados = @ \cup {<<envio.email, envio.fase>>}]
               ELSE [hist EXCEPT !.registros = Append(@, Resultado(envio.email, "falhou"))]
    /\ envio' = EnvioOcioso
    /\ posts' = <<>>
    /\ pc' = "registros"
    /\ UNCHANGED <<env, fase_i, busca, dados, total_processado, gets>>

\* lines 508-509 and the return to main
ProcessarFim ==
    /\ pc = "registros"
    /\ proc.i > Len(proc.filtrados)
    /\ FimDaFase(proc.contador, FALSE)
    /\ proc' = ProcOcioso
    /\ UNCHANGED <<env, dados, envio, posts>>

\* a test event that is sent whatever the stages delivered
SemEnviosSempre(total) == TRUE

\* line 543: nothing was sent by the stages
SemEnvios(total) == total = 0

\* lines 543-546: the test event when nothing was sent
EventoTeste ==
    /\ pc = "teste"
    /\ IF SemEnvios(total_processado)
       THEN /\ envio' = IniciarEnvio(Str(Txt_teste_email), FASE_VISITA, Str(Txt_teste),
                                     Str(Txt_teste), "teste")
            /\ posts' = <<>>
            /\ pc' = "enviando"
       ELSE /\ pc' = "fim"
            /\ UNCHANGED <<envio, posts>>
    /\ UNCHANGED <<env, fase_i, busca, dados, proc, total_processado, gets, hist>>

\* lines 546-550
AposEnvioTeste ==
    /\ pc = "enviando"
    /\ envio.passo = "fim"
    /\ envio.chamador = "teste"
    /\ total_processado' = IF envio.retorno THEN total_processado + 1 ELSE total_processado
    /\ hist' = IF envio.retorno
               THEN [hist EXCEPT
                        !.repetido = @ \/ <<envio.email, envio.fase>> \in hist.enviados,
                        !.enviados = @ \cup {<<envio.email, envio.fase>>}]
               ELSE hist
    /\ envio' = EnvioOcioso
    /\ posts' = <<>>
    /\ pc' = "fim"
    /\ UNCHANGED <<env, fase_i, busca, dados, proc, gets>>

Next ==
    \/ VerificarCredenciais
    \/ TestarConexao
    \/ GetPagina1
    \/ GetPaginaAdicional
    \/ ProcessarInicio
    \/ ProcessarRegistro
    \/ PostNova
    \/ PostLegacy
    \/ PostForm
    \/ AposEnvioRegistro
    \/ ProcessarFim
    \/ EventoTeste
    \/ AposEnvioTeste

Spec == Init /\ [][Next]_vars

----------------------------------------------------------------------------
(* The dispatcher on its own: enviar_evento_conversao called with any stage *)

EmailsEntrada == {Str(<<"x", "@", "y">>), Str(<<"a", "@", "b">>)}
FasesEntrada == {FASE_VISITA, FASE_PROPOSTA, FASE_VENDA, 7}
OpcionaisEntrada == {Null, Str(<<>>), Str(<<"m">>)}

InitEnvio ==
    /\ pc = "livre"
    /\ env = [IMOVIEW_API_KEY |-> TRUE, RD_TOKEN_PUBLICO |-> TRUE]
    /\ fase_i = 0
    /\ busca = BuscaOciosa
    /\ dados = Null
    /\ proc = ProcOcioso
    /\ total_processado = 0
    /\ envio = EnvioOcioso
    /\ posts = <<>>
    /\ gets = <<>>
    /\ hist = HistVazio

ChamarEnvio ==
    /\ pc = "livre"
    /\ envio.passo = "ocioso"
    /\ \E email \in EmailsEntrada, f \in FasesEntrada, m \in OpcionaisEntrada,
          c \in OpcionaisEntrada :
        envio' = IniciarEnvio(email, f, m, c, "livre")
    /\ UNCHANGED <<pc, env, fase_i, busca, dados, proc, total_processado, posts, gets,
                   hist>>

RetornoLivre ==
    /\ pc = "livre"
    /\ envio.passo = "fim"
    /\ envio' = EnvioOcioso
    /\ posts' = <<>>
    /\ UNCHANGED <<pc, env, fase_i, busca, dados, proc, total_processado, gets, hist>>

NextEnvio == ChamarEnvio \/ PostNova \/ PostLegacy \/ PostForm \/ RetornoLivre

SpecEnvio == InitEnvio /\ [][NextEnvio]_vars

----------------------------------------------------------------------------
(* The fetcher on its own: obter_dados_imoview(fase, 1, registros_por_pagina) *)

\* the stage only names the resource asked for
FasesBusca == {FASE_VISITA, FASE_VENDA}

RppEntrada == {1, 2, REGISTROS_POR_PAGINA}

InitBusca ==
    /\ pc = "ocioso"
    /\ env = [IMOVIEW_API_KEY |-> TRUE, RD_TOKEN_PUBLICO |-> TRUE]
    /\ fase_i = 0
    /\ busca = BuscaOciosa
    /\ dados = Null
    /\ proc = ProcOcioso
    /\ total_processado = 0
    /\ envio = EnvioOcioso
    /\ posts = <<>>
    /\ gets = <<>>
    /\ hist = HistVazio

ChamarBusca ==
    /\ pc = "ocioso"
    /\ \E f \in FasesBusca, rpp \in RppEntrada :
        busca' = NovaBusca("livre", f, rpp)
    /\ pc' = "buscar"
    /\ UNCHANGED <<env, fase_i, dados, proc, total_processado, envio, posts, gets, hist>>

RetornoBusca ==
    /\ pc = "buscado"
    /\ pc' = "ocioso"
    /\ busca' = BuscaOciosa
    /\ dados' = Null
    /\ gets' = <<>>
    /\ UNCHANGED <<env, fase_i, proc, total_processado, envio, posts, hist>>

NextBusca == ChamarBusca \/ GetPagina1 \/ GetPaginaAdicional \/ RetornoBusca

SpecBusca == InitBusca /\ [][NextBusca]_vars


----------------------------------------------------------------------------
(* The date filter on its own: filtrar_registros_por_data called on a list *)

Txt_10_01_2024 == <<"1", "0", "/", "0", "1", "/", "2", "0", "2", "4">>
Txt_2024_01_01 == <<"2", "0", "2", "4", "-", "0", "1", "-", "0", "1">>

Negociacao(txt) == Dict([datanegociacao |-> Str(txt)])
Proposta(negociacoes) == Dict([negociacoes |-> List(negociacoes)])
Negocio(txt) == Dict([datanegocio |-> Str(txt)])

\* visits: recent, on the cutoff itself, old with a recent creation date, under
\* the other spelling, and with an unreadable date next to the other spelling
VisitaNoCorte == Dict([codigo |-> Num(10), datavisita |-> Str(Txt_10_01_2024)])
VisitaAntiga ==
    Dict([codigo |-> Num(11), datavisita |-> Str(Txt_01_01_2024),
          datainclusao |-> Str(Txt_15_01_2024)])
VisitaCamel == Dict([codigo |-> Num(12), dataVisita |-> Str(Txt_15_01_2024)])
VisitaIlegivel ==
    Dict([codigo |-> Num(13), datavisita |-> Str(Txt_sem_arroba),
          dataVisita |-> Str(Txt_15_01_2024)])
\* proposals: one old negotiation; the recent negotiation in the first of two
\* proposals; no negotiation with a date and an old creation date
PropostaAntiga ==
    Dict([codigo |-> Num(14),
          imoveisproposta |-> List(<<Proposta(<<Negociacao(Txt_01_01_2024)>>)>>)])
PropostaDuas ==
    Dict([codigo |-> Num(15),
          imoveisproposta |-> List(<<Proposta(<<Negociacao(Txt_15_01_2024)>>),
                                     Proposta(<<Negociacao(Txt_01_01_2024)>>)>>)])
PropostaSemData ==
    Dict([codigo |-> Num(16),
          imoveisproposta |-> List(<<Proposta(<<Dict([valor |-> Num(1)])>>)>>),
          datainclusao |-> Str(Txt_2024_01_01)])
\* deals: the recent closing before the old one; only an old closing
VendaDuas ==
    Dict([codigo |-> Num(17),
          imoveisnegocio |-> List(<<Negocio(Txt_15_01_2024), Negocio(Txt_01_01_2024)>>)])
VendaAntiga ==
    Dict([codigo |-> Num(18), imoveisnegocio |-> List(<<Negocio(Txt_01_01_2024)>>)])
\* generic dates: the first field unreadable, the first field empty, the first
\* field old and a later field recent, and no date at all
GenericoSegundo ==
    Dict([codigo |-> Num(19), datainclusao |-> Str(Txt_sem_arroba),
          dataalteracao |-> Str(Txt_15_01_2024)])
GenericoVazio ==
    Dict([codigo |-> Num(20), datainclusao |-> Str(<<>>), data |-> Str(Txt_2024_01_15)])
GenericoAntigo ==
    Dict([codigo |-> Num(21), dataInclusao |-> Str(Txt_01_01_2024),
          dataCadastro |-> Str(Txt_15_01_2024)])
SemData == Dict([codigo |-> Num(22), datavisita |-> Null, email |-> Str(Txt_xy)])

RegistrosFiltro ==
    {RegVisita, RegProposta, VisitaNoCorte, VisitaAntiga, VisitaCamel, VisitaIlegivel,
     PropostaAntiga, PropostaDuas, PropostaSemData, VendaDuas, VendaAntiga,
     GenericoSegundo, GenericoVazio, GenericoAntigo, SemData}

\* most records in the list given to the filter
MaxFiltro == 2

InitFiltro ==
    /\ pc = "entrada"
    /\ env = [IMOVIEW_API_KEY |-> TRUE, RD_TOKEN_PUBLICO |-> TRUE]
    /\ fase_i \in DOMAIN fases
    /\ busca = BuscaOciosa
    /\ dados \in {List(l) : l \in SeqsAte(RegistrosFiltro, MaxFiltro)}
    /\ proc = ProcOcioso
    /\ total_processado = 0
    /\ envio = EnvioOcioso
    /\ posts = <<>>
    /\ gets = <<>>
    /\ hist = HistVazio

\* line 468 and the return of line 274, given the outcome f of the filter
RetornoFiltro(f) ==
    IF f.ok
    THEN /\ pc' = "filtrado"
         /\ proc' = [ProcOcioso EXCEPT !.filtrados = f.v]
    ELSE /\ pc' = "excecao"
         /\ UNCHANGED proc

ChamarFiltro ==
    /\ pc = "entrada"
    /\ RetornoFiltro(filtrar_registros_por_data(dados.v, DataCorte, fases[fase_i]))
    /\ UNCHANGED <<env, fase_i, busca, dados, total_processado, envio, posts, gets, hist>>

NextFiltro == ChamarFiltro

SpecFiltro == InitFiltro /\ [][NextFiltro]_vars

----------------------------------------------------------------------------
(* The email extractor on its own: extrair_email called on a record *)

Ausente == [t |-> "ausente"]

\* an address with "@" that names the field it stands in
Endereco ==
    [lead |-> Str(<<"l", "@", "b">>), email |-> Str(<<"e", "@", "b">>),
     emailcontato |-> Str(<<"c", "@", "b">>), email_contato |-> Str(<<"u", "@", "b">>),
     emailCliente |-> Str(<<"k", "@", "b">>)]

\* what a record can hold under a field: no such field, an address, a text
\* without "@", null; and for the lead an object with or without an email, or
\* a text instead of an object
ValoresDoCampo(campo) ==
    IF campo = "lead"
    THEN {Ausente, Dict([email |-> Endereco[campo]]), Dict([email |-> Str(Txt_sem_arroba)]),
          Dict([nome |-> Str(<<"n">>)]), Endereco[campo]}
    ELSE {Ausente, Endereco[campo], Str(Txt_sem_arroba), Null}

\* the record that holds the fields of f that are not Ausente
Presentes(f) == Dict([k \in {c \in DOMAIN f : f[c] # Ausente} |-> f[k]])

RegistrosEmail ==
    {Presentes(f) :
        f \in {g \in [DOMAIN Endereco -> UNION {ValoresDoCampo(c) : c \in DOMAIN Endereco}] :
                \A c \in DOMAIN Endereco : g[c] \in ValoresDoCampo(c)}}

InitEmail ==
    /\ pc = "entrada"
    /\ env = [IMOVIEW_API_KEY |-> TRUE, RD_TOKEN_PUBLICO |-> TRUE]
    /\ fase_i = 0
    /\ busca = BuscaOciosa
    /\ dados \in RegistrosEmail
    /\ proc = ProcOcioso
    /\ total_processado = 0
    /\ envio = EnvioOcioso
    /\ posts = <<>>
    /\ gets = <<>>
    /\ hist = HistVazio

\* line 479 for the record dados, given the outcome e of extrair_email
RetornoEmail(e) ==
    IF e.ok
    THEN /\ pc' = "extraido"
         /\ envio' = [EnvioOcioso EXCEPT !.email = e.v]
    ELSE /\ pc' = "excecao"
         /\ UNCHANGED envio

ChamarExtrairEmail ==
    /\ pc = "entrada"
    /\ RetornoEmail(extrair_email(dados))
    /\ UNCHANGED <<env, fase_i, busca, dados, proc, total_processado, posts, gets, hist>>

NextEmail == ChamarExtrairEmail

SpecEmail == InitEmail /\ [][NextEmail]_vars

----------------------------------------------------------------------------
(* Properties of processar_dados (under Spec) *)

\* hist.registros holds, in order, the outcome of each record of the stage in
\* progress that reached the email extraction
MesmoEmail(i, j) ==
    /\ hist.registros[i].email # Null
    /\ hist.registros[i].email = hist.registros[j].email

Despachado(i) == hist.registros[i].r \in {"enviado", "falhou"}

\* C1: within one run, no (email, stage) pair is dispatched successfully more
\* than once: neither two records of a stage, nor a record and the test event
C1_UmEnvioPorEmailFase ==
    /\ ~hist.repetido
    /\ \A i, j \in DOMAIN hist.registros :
        (i < j /\ MesmoEmail(i, j) /\ hist.registros[i].r = "enviado")
            => hist.registros[j].r # "enviado"

\* C1 happens: events went out in two stages, and in the current one a record
\* whose email had already gone out was met
C1_Testemunha ==
    /\ \E a, b \in hist.enviados : a[2] # b[2]
    /\ \E i, j \in DOMAIN hist.registros :
        i < j /\ MesmoEmail(i, j) /\ hist.registros[i].r = "enviado"

\* C2 as stated: of two records of a stage with the same email the second one is
\* skipped as a duplicate, whatever became of the dispatch of the first
C2_ComoEscrito ==
    \A i, j \in DOMAIN hist.registros :
        (i < j /\ MesmoEmail(i, j)) => hist.registros[j].r = "duplicado"

\* C2: a record with an email is skipped as a duplicate exactly when an earlier
\* record of the stage with that email was dispatched with success; so after a
\* successful first record there is one dispatch and the second is skipped, and
\* after a failed first record the second is dispatched as well
C2_DuplicadoAposSucesso ==
    \A j \in DOMAIN hist.registros :
        hist.registros[j].email # Null =>
            /\ hist.registros[j].r = "duplicado"
                <=> \E i \in 1..(j - 1) :
                        MesmoEmail(i, j) /\ hist.registros[i].r = "enviado"
            /\ hist.registros[j].r # "duplicado" => Despachado(j)

\* C2 happens: two records with one email, the first sent, the second skipped
C2_Testemunha ==
    /\ Len(hist.registros) = 2
    /\ MesmoEmail(1, 2)
    /\ hist.registros[1].r = "enviado"
    /\ hist.registros[2].r = "duplicado"

----------------------------------------------------------------------------
(* Properties of enviar_evento_conversao (under SpecEnvio) *)

\* posts holds the POSTs of the call in progress, in order
PostsLegacy == {i \in DOMAIN posts : posts[i].req.url = RD_LEGACY_URL}

\* C3: a send for stage SALE makes no POST to the new-format endpoint: each POST
\* it makes goes to the legacy endpoint
C3_VendaSoLegacy ==
    envio.fase = 6 =>
        \A i \in DOMAIN posts :
            /\ posts[i].req.url # "https://api.rd.services/platform/events?event_type=conversion"
            /\ posts[i].req.url = "https://www.rdstation.com.br/api/1.3/conversions"

\* C3 happens: a send for SALE has finished after a POST
C3_Testemunha ==
    /\ envio.fase = 6
    /\ envio.passo = "fim"
    /\ posts # <<>>

\* the tiers of a send, in order: endpoint and encoding
CamadaNova == <<RD_CONVERSIONS_URL, "json">>
CamadaLegacyJson == <<RD_LEGACY_URL, "json">>
CamadaLegacyForm == <<RD_LEGACY_URL, "form">>
Camadas(tipo_fase) ==
    IF tipo_fase = 6 THEN <<CamadaLegacyJson, CamadaLegacyForm>>
    ELSE <<CamadaNova, CamadaLegacyJson, CamadaLegacyForm>>

\* C4: the POSTs of a send follow the tiers in order (new format, legacy JSON,
\* legacy form-encoded; SALE starts at legacy JSON), a tier is tried only after
\* every earlier one failed, a success ends the send, and nothing follows the
\* form-encoded attempt: at most 3 POSTs, at most 2 for SALE
C4_OrdemDasCamadas ==
    envio.fase \in {4, 5, 6} =>
        /\ Len(posts) <= Len(Camadas(envio.fase))
        /\ Len(posts) <= IF envio.fase = 6 THEN 2 ELSE 3
        /\ \A i \in DOMAIN posts :
            /\ <<posts[i].req.url, posts[i].req.codificacao>> = Camadas(envio.fase)[i]
            /\ i < Len(posts) => ~Is2xx(posts[i].resp)
        /\ (posts # <<>> /\ Is2xx(posts[Len(posts)].resp)) => envio.passo = "fim"
        /\ Len(posts) = Len(Camadas(envio.fase)) => envio.passo = "fim"

\* C4 happens: a send went through all three tiers and each one failed
C4_Testemunha ==
    /\ envio.fase = 4
    /\ envio.passo = "fim"
    /\ Len(posts) = 3
    /\ ~envio.retorno

\* a send for VISIT whose new-format POST failed has finished
VisitaComFalhaNova ==
    /\ envio.fase = 4
    /\ envio.passo = "fim"
    /\ posts # <<>>
    /\ posts[1].req.url = RD_CONVERSIONS_URL
    /\ ~PostSemExcecao(posts[1].resp)

\* C5 as stated: after the failure of the new-format POST a send for VISIT makes
\* exactly one POST to the legacy endpoint, with "imoview-update_Visita"
C5_ComoEscrito ==
    VisitaComFalhaNova =>
        /\ Cardinality(PostsLegacy) = 1
        /\ \A i \in PostsLegacy : posts[i].req.identificador = "imoview-update_Visita"

\* C5: after the failure of the new-format POST a send for VISIT POSTs to the
\* legacy endpoint with "imoview-update_Visita": once, as JSON, when that POST
\* succeeds, and a second time, form-encoded, when it fails
C5_LegacyUmaOuDuasVezes ==
    VisitaComFalhaNova =>
        /\ Cardinality(PostsLegacy) \in {1, 2}
        /\ PostsLegacy = 2..Len(posts)
        /\ \A i \in PostsLegacy : posts[i].req.identificador = "imoview-update_Visita"
        /\ posts[2].req.codificacao = "json"
        /\ Cardinality(PostsLegacy) = 1 <=> PostSemExcecao(posts[2].resp)
        /\ Cardinality(PostsLegacy) = 2 => posts[3].req.codificacao = "form"

\* C5 happens: the new-format POST failed and the one legacy POST succeeded
C5_Testemunha ==
    /\ VisitaComFalhaNova
    /\ Len(posts) = 2
    /\ envio.retorno

\* C6 as stated: a send reports success exactly when one of its POSTs was
\* answered with a 2xx status
C6_SucessoSse2xx ==
    envio.passo = "fim" =>
        (envio.retorno <=> \E i \in DOMAIN posts : Is2xx(posts[i].resp))

\* C7: a send for a stage outside VISIT, PROPOSAL, SALE ends at once with
\* failure and makes no POST
C7_FaseDesconhecida ==
    (envio.passo # "ocioso" /\ envio.fase \notin {4, 5, 6}) =>
        /\ envio.passo = "fim"
        /\ ~envio.retorno
        /\ posts = <<>>

\* C7 happens: a send for stage 7 has returned
C7_Testemunha ==
    /\ envio.fase = 7
    /\ envio.passo = "fim"
    /\ ~envio.retorno

----------------------------------------------------------------------------
(* Properties of obter_dados_imoview (under SpecBusca) *)

\* gets holds, in order, the GETs of the fetch in progress; dados is what the
\* fetch returned once pc is "buscado"

\* the records of all the pages asked for so far, in page order
RECURSIVE RegistrosDasPaginas(_)
RegistrosDasPaginas(n) ==
    IF n = 0 THEN <<>> ELSE RegistrosDasPaginas(n - 1) \o gets[n].lista

\* the records in the value the fetch returned
RegistrosRetornados ==
    IF IsList(dados) THEN dados.v
    ELSE IF IsDict(dados) /\ "lista" \in DOMAIN dados.v THEN dados.v["lista"].v
    ELSE <<>>

\* n pages of rpp records are where a fetch of total records stops: the total
\* is exhausted or 5 pages were asked for, and neither was so a page earlier
ParouNaHora(n, total, rpp) ==
    /\ n \in 1..5
    /\ n = 5 \/ n * rpp >= total
    /\ n > 1 => (n - 1) * rpp < total

\* C8: a fetch asks for pages 1, 2, 3, ... in this order; when page 1 is an
\* object with records and a total it stops once the total is exhausted or 5
\* pages were asked for, otherwise after page 1; and what it returns holds the
\* records of the pages asked for, in page order
C8_Paginacao ==
    /\ Len(gets) <= 5
    /\ \A i \in DOMAIN gets : gets[i].pagina = i
    /\ pc = "buscado" =>
        /\ gets # <<>>
        /\ IF gets[1].tem_lista /\ gets[1].total.t = "num"
           THEN ParouNaHora(Len(gets), gets[1].total.v, busca.rpp)
           ELSE Len(gets) = 1
        /\ RegistrosRetornados = RegistrosDasPaginas(Len(gets))

\* C8 happens: a fetch returned after 5 pages, two of which carried a record
C8_Testemunha ==
    /\ pc = "buscado"
    /\ Len(gets) = 5
    /\ gets[2].lista = <<RegVisita>>
    /\ gets[4].lista = <<RegSemEmail>>
    /\ RegistrosRetornados = <<RegVisita, RegSemEmail>>

\* C9 as stated: the fetch never raises, and returns None when the request
\* meets a network error, a body that is not JSON or a status that is not 2xx
C9_NuncaLevanta ==
    /\ pc # "excecao"
    /\ (pc = "buscado" /\ Len(gets) = 1
            /\ (gets[1].falha \/ gets[1].status < 200 \/ gets[1].status >= 300))
        => dados = Null

----------------------------------------------------------------------------
(* Properties of main (under Spec) *)

\* hist.fases holds the stages whose fetch began, hist.contadores and
\* hist.sem_dados the count each finished stage returned and whether its fetch
\* had returned None

\* the stages begun are the first ones of VISIT, PROPOSAL, SALE, and all three
\* once the loop is over; a stage without data counted nothing
FasesEmOrdem ==
    /\ Len(hist.fases) <= 3
    /\ \A i \in DOMAIN hist.fases : hist.fases[i] = <<4, 5, 6>>[i]
    /\ pc = "teste" => (Len(hist.fases) = 3 /\ Len(hist.contadores) = 3)
    /\ \A i \in DOMAIN hist.sem_dados : hist.sem_dados[i] => hist.contadores[i] = 0

\* the step that handles a fetch that returned None: nothing is counted or
\* POSTed, and the run goes on to the fetch of the next stage, or past the loop
\* after the last stage
PassoSemDados ==
    (pc = "processar" /\ dados = Null) =>
        /\ total_processado' = total_processado
        /\ posts' = posts
        /\ envio' = envio
        /\ hist'.enviados = hist.enviados
        /\ hist'.contadores = Append(hist.contadores, 0)
        /\ IF Len(hist.fases) < 3
           THEN /\ pc' = "buscar"
                /\ hist'.fases = Append(hist.fases, <<4, 5, 6>>[Len(hist.fases) + 1])
           ELSE pc' = "teste"

\* C10: a run takes the stages in the order VISIT, PROPOSAL, SALE, and a stage
\* whose fetch returned no data adds zero sent events and is followed by the
\* next stage
C10_FasesEmOrdem == [](FasesEmOrdem) /\ [][PassoSemDados]_vars

\* C10 happens: the first stage had no data and the second one sent an event
C10_Testemunha ==
    /\ Len(hist.contadores) = 2
    /\ hist.sem_dados[1]
    /\ hist.contadores[2] >= 1
    /\ hist.fases = <<4, 5, 6>>

----------------------------------------------------------------------------
(* Isolation of records and stages (under Spec) *)

\* C11 as stated: no anomaly in a response or in a record aborts the run: the
\* run never ends by an exception that leaves main
C11_NuncaAborta == pc # "excecao"

----------------------------------------------------------------------------
(* Properties of filtrar_registros_por_data (under SpecFiltro) *)

\* dados is the list given to the filter, fases[fase_i] the stage, and
\* proc.filtrados the list returned once pc is "filtrado"

\* the date written under a field of x: Null when absent, empty or unreadable
DataDoCampo(x, campo) ==
    IF campo \in DOMAIN x.v THEN parse_data(x.v[campo]).v ELSE Null

Elementos(seq) == {seq[i] : i \in DOMAIN seq}

\* the entries of the list under a field of x, none when there is no list
Itens(x, campo) ==
    IF campo \in DOMAIN x.v /\ IsList(x.v[campo]) THEN Elementos(x.v[campo].v) ELSE {}

\* the latest of a set of dates, Null for the empty set
Ultima(datas) ==
    IF datas = {} THEN Null
    ELSE CHOOSE d \in datas : \A e \in datas : e.v = d.v \/ DtMaior(d, e)

\* all the negotiation dates of a record, over all of its proposals
DatasDeNegociacao(registro) ==
    {DataDoCampo(n, "datanegociacao") :
        n \in UNION {Itens(p, "negociacoes") : p \in Itens(registro, "imoveisproposta")}}
    \ {Null}

\* all the closing dates of a record
DatasDeNegocio(registro) ==
    {DataDoCampo(n, "datanegocio") : n \in Itens(registro, "imoveisnegocio")} \ {Null}

\* the date of the stage: the visit date under the spelling that is present,
\* the latest negotiation date, the latest closing date
DataDaFase(registro, tipo_fase) ==
    CASE tipo_fase = 4 ->
            IF "datavisita" \in DOMAIN registro.v THEN DataDoCampo(registro, "datavisita")
            ELSE DataDoCampo(registro, "dataVisita")
      [] tipo_fase = 5 -> Ultima(DatasDeNegociacao(registro))
      [] tipo_fase = 6 -> Ultima(DatasDeNegocio(registro))

\* the generic date fields, in the order of the fallback
CamposGenericos ==
    <<"datainclusao", "dataInclusao", "data_inclusao", "dataalteracao",
      "dataAlteracao", "data_alteracao", "dataCadastro", "data">>

\* the positions of the generic fields of a record that hold a readable date
GenericosLegiveis(registro) ==
    {i \in DOMAIN CamposGenericos : DataDoCampo(registro, CamposGenericos[i]) # Null}

\* the date of the first generic field that holds a readable one
PrimeiraGenerica(registro) ==
    IF GenericosLegiveis(registro) = {} THEN Null
    ELSE DataDoCampo(registro,
            CamposGenericos[CHOOSE i \in GenericosLegiveis(registro) :
                                \A j \in GenericosLegiveis(registro) : i <= j])

\* the most relevant date of a record
DataRelevante(registro, tipo_fase) ==
    IF DataDaFase(registro, tipo_fase) # Null THEN DataDaFase(registro, tipo_fase)
    ELSE PrimeiraGenerica(registro)

\* 10/01/2024 00:00 or later
DesdeOCorte(data) ==
    data # Null /\ (data.v = <<2024, 1, 10, 0, 0, 0>> \/ TuplaMaior(data.v, <<2024, 1, 10, 0, 0, 0>>, 1))

Retido(registro) == DesdeOCorte(DataRelevante(registro, <<4, 5, 6>>[fase_i]))

C13_DataGenerica ==
    /\ pc # "excecao"
    /\ pc = "filtrado" =>
        \A i \in DOMAIN dados.v :
            DataDaFase(dados.v[i], <<4, 5, 6>>[fase_i]) = Null =>
                /\ dados.v[i] \in Elementos(proc.filtrados)
                    <=> DesdeOCorte(PrimeiraGenerica(dados.v[i]))
                /\ GenericosLegiveis(dados.v[i]) = {}
                    => dados.v[i] \notin Elementos(proc.filtrados)

\* C13 happens: a record without any date was left out, and one whose first
\* generic field is unreadable was kept for its second
C13_Testemunha ==
    /\ pc = "filtrado"
    /\ dados.v = <<SemData, GenericoSegundo>>
    /\ proc.filtrados = <<GenericoSegundo>>

----------------------------------------------------------------------------
(* Properties of extrair_email (under SpecEmail) *)

\* dados is the record given to the extractor and envio.email what it returned
\* once pc is "extraido"

ComArroba(x) == x.t = "str" /\ \E i \in DOMAIN x.v : x.v[i] = "@"

\* the email of the nested lead object, when there is one with "@"
EmailAninhado(registro) ==
    IF /\ "lead" \in DOMAIN registro.v
       /\ registro.v["lead"].t = "dict"
       /\ "email" \in DOMAIN registro.v["lead"].v
       /\ ComArroba(registro.v["lead"].v["email"])
    THEN registro.v["lead"].v["email"]
    ELSE Null

CamposDeEmail == <<"email", "emailcontato", "email_contato", "emailCliente">>

\* the positions of the top-level fields whose value holds "@"
CamposComArroba(registro) ==
    {i \in DOMAIN CamposDeEmail :
        CamposDeEmail[i] \in DOMAIN registro.v /\ ComArroba(registro.v[CamposDeEmail[i]])}

EmailEsperado(registro) ==
    IF EmailAninhado(registro) # Null THEN EmailAninhado(registro)
    ELSE IF CamposComArroba(registro) = {} THEN Null
    ELSE registro.v[CamposDeEmail[CHOOSE i \in CamposComArroba(registro) :
                                      \A j \in CamposComArroba(registro) : i <= j]]

\* C14: the extractor returns the email of the nested lead when it holds "@",
\* otherwise the value of the first of email, emailcontato, email_contato,
\* emailCliente that holds "@", otherwise nothing; what it returns holds "@"
C14_ExtrairEmail ==
    /\ pc # "excecao"
    /\ pc = "extraido" =>
        /\ envio.email = EmailEsperado(dados)
        /\ envio.email # Null => ComArroba(envio.email)

\* C14 happens: the lead had no usable email, the field email held a text
\* without "@", and the address of emailcontato was returned
C14_Testemunha ==
    /\ pc = "extraido"
    /\ "lead" \in DOMAIN dados.v
    /\ "email" \in DOMAIN dados.v
    /\ "emailCliente" \in DOMAIN dados.v
    /\ envio.email = Str(<<"c", "@", "b">>)

----------------------------------------------------------------------------
\* The counters of a stage (processar_dados) and of the run (main)

RECURSIVE Soma(_)
Soma(s) == IF s = <<>> THEN 0 ELSE Head(s) + Soma(Tail(s))

\* the loop of processar_dados has treated every filtered record of the stage
FimDoLaco == pc = "registros" /\ proc.i > Len(proc.filtrados)

EmailsDespachados == {hist.registros[j].email : j \in {i \in DOMAIN hist.registros : Despachado(i)}}

EmailsEntregues ==
    {hist.registros[j].email : j \in {i \in DOMAIN hist.registros : hist.registros[i].r = "enviado"}}

ComEmail == Cardinality({j \in DOMAIN hist.registros : hist.registros[j].email # Null})

TesteEntregue == pc = "fim" /\ <<Str(Txt_teste_email), FASE_VISITA>> \in hist.enviados

\* C15 as written: at the end of a stage the sent count is the number of
\* unique emails dispatched and the no-email count is the R records fetched
\* minus the records with an email; the run total is the sum of the stage counts
C15_ComoEscrito ==
    /\ FimDoLaco =>
          /\ proc.contador = Cardinality(EmailsDespachados)
          /\ proc.contador_sem_email = proc.recebidos - ComEmail
    /\ total_processado = Soma(hist.contadores)

\* C15: at the end of a stage the sent count is the number of unique emails
\* whose dispatch succeeded, and the no-email count is the number of records
\* that passed the date filter (at most the R fetched) minus the number of
\* those in which an email was found; the run total is the sum of the stage
\* counts, plus one once the test event was delivered
C15_Contadores ==
    /\ FimDoLaco =>
          /\ Len(hist.registros) = Len(proc.filtrados)
          /\ proc.contador = Cardinality(EmailsEntregues)
          /\ proc.contador_sem_email = Len(proc.filtrados) - ComEmail
          /\ Len(proc.filtrados) <= proc.recebidos
    /\ total_processado = Soma(hist.contadores) + (IF TesteEntregue THEN 1 ELSE 0)

\* a stage ends with a record filtered out and a failed dispatch behind it,
\* after a stage that delivered an event
C15_Testemunha ==
    /\ FimDoLaco
    /\ Len(proc.filtrados) < proc.recebidos
    /\ proc.contador = 0
    /\ Cardinality(EmailsDespachados) = 1
    /\ total_processado = 1

----------------------------------------------------------------------------
\* The test event of main

TesteEmCurso == envio.chamador = "teste"

TresFasesFeitas ==
    /\ hist.fases = fases
    /\ Len(hist.contadores) = Len(fases)

C16_Passo ==
    /\ pc = "teste" => (TesteEmCurso' <=> Soma(hist.contadores) = 0)
    /\ (~TesteEmCurso /\ TesteEmCurso') =>
          /\ pc = "teste"
          /\ TresFasesFeitas
          /\ posts' = <<>>
          /\ envio'.email = Str(Txt_teste_email)
          /\ envio'.fase = FASE_VISITA
    /\ (TesteEmCurso \/ pc = "fim") => pc' # "teste"

\* C16: once the three stages have run, the test event (VISIT, fixed address)
\* is dispatched exactly when the stages sent no event; its dispatch starts
\* only after the SALE stage has finished and never starts a second time
C16_EventoTeste == [][C16_Passo]_vars

\* the test event is being dispatched after three stages that sent nothing,
\* one of them with records
C16_Testemunha ==
    /\ TesteEmCurso
    /\ pc = "enviando"
    /\ hist.contadores = <<0, 0, 0>>
    /\ hist.sem_dados # <<TRUE, TRUE, TRUE>>

----------------------------------------------------------------------------
\* The credentials

FaltaCredencial == ~env.IMOVIEW_API_KEY \/ ~env.RD_TOKEN_PUBLICO

\* no request was made and none is being prepared
SemChamadas ==
    /\ gets = <<>>
    /\ posts = <<>>
    /\ busca = BuscaOciosa
    /\ envio = EnvioOcioso
    /\ hist = HistVazio

\* C17: when the API key or the public token is missing, the program stops
\* at its start with a fatal error: main is never entered, so there is no
\* connection test, no fetch and no dispatch
C17_CredenciaisAusentes ==
    FaltaCredencial => (pc \in {"modulo", "fatal"} /\ SemChamadas)

\* the program has stopped for the public token alone
C17_Testemunha ==
    /\ pc = "fatal"
    /\ env.IMOVIEW_API_KEY
    /\ ~env.RD_TOKEN_PUBLICO

----------------------------------------------------------------------------
\* The dedup keys of a stage

NoLaco == pc = "registros" \/ (pc = "enviando" /\ envio.chamador = "registro")

VoltaDoEnvio == pc = "enviando" /\ envio.chamador = "registro" /\ envio.passo = "fim"

ChavesEntregues == {ChaveEmail(e, fases[fase_i]) : e \in EmailsEntregues}

\* the key set and the sent counter change together, and only at the return
\* of a dispatch that succeeded
C18_Passo ==
    NoLaco /\ NoLaco' =>
        IF VoltaDoEnvio /\ envio.retorno
        THEN /\ proc'.emails_processados =
                    proc.emails_processados \cup {ChaveEmail(envio.email, envio.fase)}
             /\ proc'.contador = proc.contador + 1
        ELSE /\ proc'.emails_processados = proc.emails_processados
             /\ proc'.contador = proc.contador

C18_Chaves ==
    NoLaco =>
        /\ proc.emails_processados = ChavesEntregues
        /\ \A i, j \in DOMAIN hist.registros :
              (i < j /\ MesmoEmail(i, j)) =>
                  /\ hist.registros[i].r = "enviado" => ~Despachado(j)
                  /\ (\A k \in 1..(j - 1) :
                          MesmoEmail(k, j) => hist.registros[k].r = "falhou")
                     => Despachado(j)

\* C18: the dedup key is recorded and the sent counter incremented only when
\* the dispatch succeeded; after a success no later record of the stage with
\* that key is dispatched, after a failure the key is not recorded and a later
\* record with the same email is dispatched again
C18_ChaveSoNoSucesso == [](C18_Chaves) /\ [][C18_Passo]_vars

\* a dispatch failed, left no key, and the next record with the same email
\* was dispatched again and delivered
C18_Testemunha ==
    /\ pc = "registros"
    /\ Len(hist.registros) = 2
    /\ MesmoEmail(1, 2)
    /\ hist.registros[1].r = "falhou"
    /\ hist.registros[2].r = "enviado"
    /\ proc.contador = 1
    /\ Cardinality(proc.emails_processados) = 1

----------------------------------------------------------------------------
\* One key set for the run instead of one per stage

\* the content of a key set created once before the stage loop and shared by
\* the three stages: the keys of every delivery of the run so far
ChavesDaExecucao == {ChaveEmail(p[1], p[2]) : p \in hist.enviados}

UltimoRegistro == hist.registros[Len(hist.registros)]

\* the test of line 490 answers the same on both sets, for every email that
\* may come: the shared set holds the keys of the stage's own set and no key
\* of an earlier stage is equal to a key of this stage
C19_MesmaResposta ==
    NoLaco =>
        /\ proc.emails_processados \subseteq ChavesDaExecucao
        /\ \A j \in DOMAIN proc.filtrados :
              LET e == extrair_email(proc.filtrados[j])
              IN  (e.ok /\ Truthy(e.v)) =>
                      (JaProcessado(ChaveEmail(e.v, fases[fase_i]), proc.emails_processados)
                         <=> JaProcessado(ChaveEmail(e.v, fases[fase_i]), ChavesDaExecucao))

\* what the loop does with a record is what it would do with the shared set
C19_Passo ==
    (pc = "registros" /\ proc.i <= Len(proc.filtrados)) =>
        /\ pc' = "enviando" =>
              ~JaProcessado(ChaveEmail(envio'.email, envio'.fase), ChavesDaExecucao)
        /\ (pc' = "registros" /\ UltimoRegistro'.r = "duplicado") =>
              JaProcessado(ChaveEmail(UltimoRegistro'.email, fases[fase_i]), ChavesDaExecucao)

\* C19: the run with one key set per stage, as the code has it, makes the
\* same dispatches in the same order as a run with a single key set shared
\* by the three stages, whatever the records and the delivery outcomes
C19_ConjuntoPorFase == [](C19_MesmaResposta) /\ [][C19_Passo]_vars

\* an email delivered at the VISIT stage is dispatched again at a later
\* stage, with keys of the earlier stage in the shared set
C19_Testemunha ==
    /\ pc = "enviando"
    /\ envio.chamador = "registro"
    /\ envio.fase # FASE_VISITA
    /\ <<envio.email, FASE_VISITA>> \in hist.enviados

----------------------------------------------------------------------------
(* cron.py: the scheduler process. Its position is pc; dados holds its state:
   falta, the minutes from now to the job's next_run; ultimo, what the last
   executar_integracao returned; servidor, the state of the web-server thread *)

\* line 50: the job runs every day at 23:58, so next_run moves by one day
MinutosDoDia == 24 * 60

\* lines 29-33: the subprocess ends with an exit code, or cannot be started
SaidasDoScript == {"codigo_0", "codigo_1", "excecao"}

\* lines 23-47: True when the script exits with code 0; an exception is caught
executar_integracao(saida) == saida = "codigo_0"

\* line 60: the condition of `while True`
CondicaoDoLaco == TRUE

\* line 75: the outcome of binding the TCP server to PORT
Escutas == {"ouvindo", "erro_na_thread"}

CronOcioso(falta) == [falta |-> falta, ultimo |-> FALSE, servidor |-> "nao_iniciado"]

InitCron ==
    /\ pc = "cron"
    /\ dados \in {CronOcioso(falta) : falta \in 1..MinutosDoDia}
    /\ env = [IMOVIEW_API_KEY |-> TRUE, RD_TOKEN_PUBLICO |-> TRUE]
    /\ fase_i = 0
    /\ busca = BuscaOciosa
    /\ proc = ProcOcioso
    /\ total_processado = 0
    /\ envio = EnvioOcioso
    /\ posts = <<>>
    /\ gets = <<>>
    /\ hist = HistVazio

\* lines 49-57: the job is scheduled, then run once at once
ExecucaoInicial ==
    /\ pc = "cron"
    /\ \E saida \in SaidasDoScript :
          dados' = [dados EXCEPT !.ultimo = executar_integracao(saida)]
    /\ pc' = "laco"
    /\ UNCHANGED <<env, fase_i, busca, proc, total_processado, envio, posts, gets, hist>>

\* lines 64-80, the statements after the loop: the thread is started and
\* start_web_server (72-77) binds and serves
IniciarServidor(escuta) ==
    /\ dados' = [dados EXCEPT !.servidor = escuta]
    /\ pc' = "fim_do_modulo"

\* line 61: run_pending runs the job when its next_run has come
RodarPendentes(saida) ==
    /\ dados' = IF dados.falta = 0
                THEN [dados EXCEPT !.ultimo = executar_integracao(saida),
                                   !.falta = MinutosDoDia]
                ELSE dados
    /\ pc' = "sleep"

\* lines 60-61, and lines 64-80 when the loop is left
LacoPrincipal ==
    /\ pc = "laco"
    /\ IF CondicaoDoLaco
       THEN \E saida \in SaidasDoScript : RodarPendentes(saida)
       ELSE \E escuta \in Escutas : IniciarServidor(escuta)
    /\ UNCHANGED <<env, fase_i, busca, proc, total_processado, envio, posts, gets, hist>>

\* line 62: time.sleep(60)
Dormir ==
    /\ pc = "sleep"
    /\ dados' = [dados EXCEPT !.falta = IF @ > 0 THEN @ - 1 ELSE 0]
    /\ pc' = "laco"
    /\ UNCHANGED <<env, fase_i, busca, proc, total_processado, envio, posts, gets, hist>>

NextCron ==
    \/ ExecucaoInicial
    \/ LacoPrincipal
    \/ Dormir

\* the process is never starved: a statement that can run does run
SpecCron == InitCron /\ [][NextCron]_vars /\ WF_vars(NextCron)

ServidorOuvindo == dados.servidor = "ouvindo"

\* C20: in every execution of cron.py the web-server thread is eventually
\* started and listening on PORT
C20_ServidorIniciado == <>ServidorOuvindo

\* what the code does instead: the thread is never started, the process
\* stays in its scheduling loop
ServidorNuncaIniciado ==
    /\ dados.servidor = "nao_iniciado"
    /\ pc \in {"cron", "laco", "sleep"}

----------------------------------------------------------------------------
\* The requests of one fetch (under SpecBusca)

\* the calls of obter_dados_imoview on the stack: the call for page 1, the
\* call for a page p >= 2 made from its loop, and a call made from that one
Profundidade ==
    CASE pc = "buscar" -> 1
      [] pc = "paginas" -> 2
      [] pc = "recursao" -> 3
      [] OTHER -> 0

\* the loop of the page-1 call is at page p of at most 5, with a request made
\* for each page before p
LacoLimitado ==
    pc = "paginas" =>
        /\ busca.p \in 2..5
        /\ busca.p <= busca.max_paginas
        /\ busca.max_paginas <= 5
        /\ Len(gets) = busca.p - 1

\* C21: a fetch makes at most 5 GET requests: only the call for page 1 goes
\* on to further pages, the calls for pages 2..5 never do (at most 2 calls
\* deep); further pages are asked for only when the answer for page 1 was an
\* object with `lista` and a totalRegistros above one page, so never after an
\* answer that was a bare list
C21_RequisicoesLimitadas ==
    /\ Len(gets) <= 5
    /\ Profundidade <= 2
    /\ LacoLimitado
    /\ Len(gets) > 1 =>
          /\ gets[1].tem_lista
          /\ gets[1].total.t = "num"
          /\ gets[1].total.v > busca.rpp

\* a fetch of one record per page, told of 21 records, returned after 5 pages
C21_Testemunha ==
    /\ pc = "buscado"
    /\ busca.rpp = 1
    /\ Len(gets) = 5
    /\ gets[1].total = Num(21)

\* a bare list longer than a page was returned as it came, after one request
ListaPuraSemPaginar ==
    /\ pc = "buscado"
    /\ Len(gets) = 1
    /\ ~gets[1].tem_lista
    /\ IsList(dados)
    /\ Len(dados.v) > busca.rpp

----------------------------------------------------------------------------
\* A later page that fails (under SpecBusca)

RECURSIVE RegistrosDasPaginasBoas(_)
RegistrosDasPaginasBoas(n) ==
    IF n = 0 THEN <<>>
    ELSE RegistrosDasPaginasBoas(n - 1) \o (IF gets[n].falha THEN <<>> ELSE gets[n].lista)

UltimoGet == gets[Len(gets)]

\* a fetch that went on to further pages and returned: every page up to the
\* last one was asked for, failed or not, and the value returned is page 1's
\* total with the records of the pages that did not fail, in page order
C22_Retorno ==
    (pc = "buscado" /\ Len(gets) > 1) =>
        /\ ~gets[1].falha
        /\ \A i \in DOMAIN gets : gets[i].pagina = i
        /\ Len(gets) = MaxPaginas(gets[1].total.v, busca.rpp)
        /\ dados # Null
        /\ dados = ResultadoPaginado(RegistrosDasPaginasBoas(Len(gets)), gets[1].total)

\* the turn of the loop in which the request for page p fails: registros is
\* left as it was and the loop goes on to page p + 1, or returns after the
\* last page
C22_Passo ==
    (pc = "paginas" /\ Len(gets') = Len(gets) + 1 /\ UltimoGet'.falha) =>
        /\ UltimoGet'.pagina = busca.p
        /\ IF busca.p < busca.max_paginas
           THEN /\ pc' = "paginas"
                /\ busca'.p = busca.p + 1
                /\ busca'.registros = busca.registros
           ELSE /\ pc' = "buscado"
                /\ dados' = ResultadoPaginado(busca.registros, busca.total)

\* C22: when page 1 of a fetch succeeds and the request for a later page
\* fails (network error, 4xx/5xx status, or a body that is not JSON), that
\* page is skipped: the remaining pages are still requested and the fetch
\* returns the records of page 1 and of every later page that succeeded, in
\* page order, and not None
C22_PaginaFalhaSaltada == [](C22_Retorno) /\ [][C22_Passo]_vars

\* page 2 of 3 failed; the fetch returned the record of page 1 followed by
\* the record of page 3
C22_Testemunha ==
    /\ pc = "buscado"
    /\ Len(gets) = 3
    /\ gets[2].falha
    /\ gets[1].lista # <<>>
    /\ gets[3].lista # <<>>
    /\ dados # Null
    /\ RegistrosRetornados = gets[1].lista \o gets[3].lista

----------------------------------------------------------------------------
\* The connection test of main (under Spec); hist.conexao is its answer

ConexaoFalhou ==
    \/ hist.conexao.rede = "falha"
    \/ hist.conexao.rede = "ok" /\ hist.conexao.status # 200

\* C23: when the connection test fails (an exception, or a status other than
\* 200) main returns at once: no stage is fetched and no event is
\* dispatched, the test event included
C23_ConexaoFalhou ==
    ConexaoFalhou =>
        /\ pc = "fim"
        /\ hist.fases = <<>>
        /\ hist.contadores = <<>>
        /\ hist.enviados = {}
        /\ gets = <<>>
        /\ posts = <<>>
        /\ busca = BuscaOciosa
        /\ envio = EnvioOcioso
        /\ total_processado = 0

\* main has returned after a connection test answered with status 500
C23_Testemunha ==
    /\ pc = "fim"
    /\ hist.conexao = Resposta(500)

====
